---- MODULE Spec2Model ----
(***************************************************************************)
(* Model of CPPSimilarityChecker (src/app.py): the Normalizer              *)
(* (preprocess_cpp), the MOSS fingerprint similarity, the structural       *)
(* similarity, the difflib line similarity, the segment extraction and     *)
(* the aggregation done by check_similarity.                               *)
(*                                                                         *)
(* A text is a sequence of one-character strings.  Similarity scores are   *)
(* exact rationals <<numerator, denominator>>; the rounding of Python's    *)
(* binary floating point is not modelled.  An MD5 digest is modelled as an *)
(* injective, scrambled image of the hashed string (no collisions).        *)
(***************************************************************************)
EXTENDS Integers, Sequences, FiniteSets, TLC

VARIABLES
  ignore_comments,        \* self.ignore_comments
  ignore_whitespace,      \* self.ignore_whitespace
  normalize_identifiers,  \* self.normalize_identifiers
  op,                     \* the method called last ("init" after construction)
  code1,                  \* its first argument
  code2,                  \* its second argument (<<>> for a one-argument method)
  fault,                  \* the stage of the call that raised an exception ("none": none)
  result                  \* the value it returned

vars ==
  <<ignore_comments, ignore_whitespace, normalize_identifiers, op, code1, code2, fault, result>>

\* The object the methods read their options from.
Self ==
  [ignore_comments |-> ignore_comments,
   ignore_whitespace |-> ignore_whitespace,
   normalize_identifiers |-> normalize_identifiers]

(***************************************************************************)
(* Characters                                                              *)
(***************************************************************************)
LowerCase ==
  {"a","b","c","d","e","f","g","h","i","j","k","l","m",
   "n","o","p","q","r","s","t","u","v","w","x","y","z"}

UpperCase ==
  {"A","B","C","D","E","F","G","H","I","J","K","L","M",
   "N","O","P","Q","R","S","T","U","V","W","X","Y","Z"}

DigitChars == <<"0","1","2","3","4","5","6","7","8","9">>

\* str.isalpha, str.isdigit, str.isalnum on the ASCII range
isalpha(c) == c \in LowerCase \cup UpperCase

isdigit(c) == \E d \in 1..Len(DigitChars) : DigitChars[d] = c

isalnum(c) == isalpha(c) \/ isdigit(c)

\* the regular expression classes \s and \w
IsSpace(c) == c \in {" ", "\n", "\t", "\r"}

IsWord(c) == isalnum(c) \/ c = "_"

\* the class [=+\-*/(){}[\];<>!&|,.] of the operator pattern
OperatorChars ==
  {"=", "+", "-", "*", "/", "(", ")", "{", "}", "[", "]", ";", "<", ">", "!", "&", "|", ",", "."}

(***************************************************************************)
(* Sequences                                                               *)
(***************************************************************************)
Min(a, b) == IF a <= b THEN a ELSE b

Max(a, b) == IF a >= b THEN a ELSE b

\* s[lo:hi] of Python, 0-based, hi exclusive, no clamping needed by the callers
Slice(s, lo, hi) == [n \in 1..Max(0, Min(hi, Len(s)) - lo) |-> s[lo + n]]

\* whether the text t occurs in s at the 1-based position i
StartsAt(s, i, t) == i + Len(t) - 1 <= Len(s) /\ \A n \in 1..Len(t) : s[i + n - 1] = t[n]

\* the positions of s, in increasing order, that satisfy Test
Positions(s, Test(_)) == SelectSeq([n \in 1..Len(s) |-> n], Test)

RECURSIVE Join(_, _)
\* sep.join(parts), computed on the two halves of the list
Join(parts, sep) ==
  IF parts = <<>> THEN <<>>
  ELSE IF Len(parts) = 1 THEN parts[1]
  ELSE LET half == Len(parts) \div 2
       IN Join(SubSeq(parts, 1, half), sep) \o sep \o Join(SubSeq(parts, half + 1, Len(parts)), sep)

\* s.split(sep) for a one-character sep: the parts between the occurrences of sep,
\* always at least one (maybe empty) part
SplitOn(s, sep) ==
  LET at == Positions(s, LAMBDA n : s[n] = sep)
  IN [k \in 1..(Len(at) + 1) |->
        Slice(s, IF k = 1 THEN 0 ELSE at[k - 1], IF k > Len(at) THEN Len(s) ELSE at[k] - 1)]

\* s.split(): the maximal runs of non-whitespace characters
SplitWs(s) ==
  LET first == Positions(s, LAMBDA n : ~IsSpace(s[n]) /\ (n = 1 \/ IsSpace(s[n - 1])))
      end(i) == CHOOSE j \in i..Len(s) :
                  /\ j = Len(s) \/ IsSpace(s[j + 1])
                  /\ \A m \in i..j : ~IsSpace(s[m])
  IN [k \in 1..Len(first) |-> Slice(s, first[k] - 1, end(first[k]))]

RECURSIVE Decimal(_)
\* str(n) for n >= 0
Decimal(n) == IF n < 10 THEN <<DigitChars[n + 1]>> ELSE Decimal(n \div 10) \o <<DigitChars[(n % 10) + 1]>>

\* the greatest and the least element of a non-empty set of integers
Maximum(S) == CHOOSE x \in S : \A y \in S : y <= x

Minimum(S) == CHOOSE x \in S : \A y \in S : x <= y

(***************************************************************************)
(* preprocess_cpp                                                          *)
(***************************************************************************)
\* s.find(t, i): the least j >= i with t at position j of s, or 0
Find(s, i, t) ==
  IF \E j \in i..Len(s) : StartsAt(s, j, t)
    THEN CHOOSE j \in i..Len(s) : StartsAt(s, j, t) /\ \A m \in i..(j - 1) : ~StartsAt(s, m, t)
    ELSE 0

RECURSIVE RemoveCComments(_, _)
\* re.sub(r'/\*.*?\*/', '', code, flags=re.DOTALL) from position i on: the text up
\* to the next comment that is closed, then the text after that comment
RemoveCComments(code, i) ==
  LET open == Find(code, i, <<"/", "*">>)
      close == IF open > 0 THEN Find(code, open + 2, <<"*", "/">>) ELSE 0
  IN IF close = 0 THEN Slice(code, i - 1, Len(code))
     ELSE Slice(code, i - 1, open - 1) \o RemoveCComments(code, close + 2)

RECURSIVE RemoveCppComments(_, _)
\* re.sub(r'//.*?$', '', code, flags=re.MULTILINE) from position i on: the text up
\* to the next //, then the text from the end of that line on
RemoveCppComments(code, i) ==
  LET open == Find(code, i, <<"/", "/">>)
      nl == IF open > 0 THEN Find(code, open + 2, <<"\n">>) ELSE 0
  IN IF open = 0 THEN Slice(code, i - 1, Len(code))
     ELSE Slice(code, i - 1, open - 1) \o (IF nl = 0 THEN <<>> ELSE RemoveCppComments(code, nl))

\* the first position >= i of code that holds no whitespace (Len(code) + 1 if none)
SpaceRunEnd(code, i) ==
  IF i > Len(code) THEN i
  ELSE CHOOSE j \in i..(Len(code) + 1) :
         /\ j > Len(code) \/ ~IsSpace(code[j])
         /\ \A m \in i..(j - 1) : IsSpace(code[m])

\* the last position <= i of code that holds no whitespace (0 if none)
SpaceRunStart(code, i) ==
  i - (CHOOSE d \in 0..i :
         /\ d = i \/ ~IsSpace(code[i - d])
         /\ \A m \in (i - d + 1)..i : IsSpace(code[m]))

\* the pattern written r'\s' for r'\s+': every whitespace character becomes a space
CollapseWhitespace_each(code) ==
  [n \in 1..Len(code) |-> IF IsSpace(code[n]) THEN " " ELSE code[n]]

\* re.sub(r'\s+', ' ', code): of every run of whitespace the first character stays,
\* as a space
CollapseWhitespace(code) ==
  LET kept == Positions(code, LAMBDA n : ~IsSpace(code[n]) \/ n = 1 \/ ~IsSpace(code[n - 1]))
  IN [k \in 1..Len(kept) |-> IF IsSpace(code[kept[k]]) THEN " " ELSE code[kept[k]]]

\* re.sub(r'\s*([=+\-*/(){}[\];<>!&|,.])\s*', r'\1', code): every operator character
\* is matched with the whitespace runs on its two sides, so a whitespace character
\* goes exactly when the run it is in ends before, or starts after, an operator
StripAroundOperators(code) ==
  LET after(n) == SpaceRunEnd(code, n)
      before(n) == SpaceRunStart(code, n)
      dropped(n) ==
        /\ IsSpace(code[n])
        /\ \/ after(n) <= Len(code) /\ code[after(n)] \in OperatorChars
           \/ before(n) >= 1 /\ code[before(n)] \in OperatorChars
      kept == Positions(code, LAMBDA n : ~dropped(n))
  IN [k \in 1..Len(kept) |-> code[kept[k]]]

cpp_keywords ==
  {
    <<"a","u","t","o">>, <<"b","r","e","a","k">>, <<"c","a","s","e">>, <<"c","h","a","r">>,
    <<"c","o","n","s","t">>, <<"c","o","n","t","i","n","u","e">>,
    <<"d","e","f","a","u","l","t">>, <<"d","o">>, <<"d","o","u","b","l","e">>,
    <<"e","l","s","e">>, <<"e","n","u","m">>, <<"e","x","t","e","r","n">>,
    <<"f","l","o","a","t">>, <<"f","o","r">>, <<"g","o","t","o">>, <<"i","f">>,
    <<"i","n","t">>, <<"l","o","n","g">>, <<"r","e","g","i","s","t","e","r">>,
    <<"r","e","t","u","r","n">>, <<"s","h","o","r","t">>, <<"s","i","g","n","e","d">>,
    <<"s","i","z","e","o","f">>, <<"s","t","a","t","i","c">>, <<"s","t","r","u","c","t">>,
    <<"s","w","i","t","c","h">>, <<"t","y","p","e","d","e","f">>, <<"u","n","i","o","n">>,
    <<"u","n","s","i","g","n","e","d">>, <<"v","o","i","d">>,
    <<"v","o","l","a","t","i","l","e">>, <<"w","h","i","l","e">>, <<"c","l","a","s","s">>,
    <<"n","a","m","e","s","p","a","c","e">>, <<"t","r","y">>, <<"c","a","t","c","h">>,
    <<"n","e","w">>, <<"d","e","l","e","t","e">>, <<"p","u","b","l","i","c">>,
    <<"p","r","i","v","a","t","e">>, <<"p","r","o","t","e","c","t","e","d">>,
    <<"t","e","m","p","l","a","t","e">>, <<"v","i","r","t","u","a","l">>,
    <<"f","r","i","e","n","d">>, <<"i","n","l","i","n","e">>,
    <<"o","p","e","r","a","t","o","r">>, <<"u","s","i","n","g">>, <<"t","h","r","o","w">>
  }

\* the marker tokens and the canonical identifier names
NumMarker == <<"N", "U", "M">>

StrMarker == <<"S", "T", "R">>

CanonicalName(identifier_counter) == <<"V", "A", "R", "_">> \o Decimal(identifier_counter)

RECURSIVE WordEnd(_, _)
\* while i < len(code) and (code[i].isalnum() or code[i] == '_'): i += 1
WordEnd(code, i) ==
  IF i <= Len(code) /\ (isalnum(code[i]) \/ code[i] = "_") THEN WordEnd(code, i + 1) ELSE i

RECURSIVE NumberEnd(_, _)
\* while i < len(code) and (code[i].isdigit() or code[i] == '.'): i += 1
NumberEnd(code, i) ==
  IF i <= Len(code) /\ (isdigit(code[i]) \/ code[i] = ".") THEN NumberEnd(code, i + 1) ELSE i

RECURSIVE QuoteEnd(_, _, _)
\* the scan of a quoted run from the character after the opening quote: a backslash
\* skips the next character, the closing quote (if any) is skipped too
QuoteEnd(code, i, quote) ==
  IF i > Len(code) THEN i
  ELSE IF code[i] = quote THEN i + 1
  ELSE IF code[i] = "\\" /\ i + 1 <= Len(code) THEN QuoteEnd(code, i + 2, quote)
  ELSE QuoteEnd(code, i + 1, quote)

\* the identifier branch: a keyword is kept, any other word gets the canonical name
\* of its first occurrence; returns the token, the map and the counter
IdentifierToken(word, identifier_map, identifier_counter) ==
  IF word \in cpp_keywords
    THEN [token |-> word, map |-> identifier_map, counter |-> identifier_counter]
  ELSE IF word \notin DOMAIN identifier_map
    THEN [token |-> CanonicalName(identifier_counter),
          map |-> [w \in DOMAIN identifier_map \cup {word} |->
                     IF w = word THEN CanonicalName(identifier_counter) ELSE identifier_map[w]],
          counter |-> identifier_counter + 1]
  ELSE [token |-> identifier_map[word], map |-> identifier_map, counter |-> identifier_counter]

\* the loop variables before the first turn of the tokenizer loop
TokenizerStart == [i |-> 1, tokens |-> <<>>, identifier_map |-> <<>>, identifier_counter |-> 0]

\* one turn of the tokenizer loop: the loop variables after the turn that starts at
\* position t.i (1-based) of code
TokenizerTurn(code, t) ==
  LET char == code[t.i] IN
    IF isalpha(char) \/ char = "_"
      THEN LET e == WordEnd(code, t.i)
               w == IdentifierToken(Slice(code, t.i - 1, e - 1), t.identifier_map,
                                    t.identifier_counter)
           IN [i |-> e, tokens |-> Append(t.tokens, w.token),
               identifier_map |-> w.map, identifier_counter |-> w.counter]
    ELSE IF isdigit(char)
      THEN [t EXCEPT !.i = NumberEnd(code, t.i), !.tokens = Append(t.tokens, NumMarker)]
    ELSE IF char = "\"" \/ char = "'"
      THEN [t EXCEPT !.i = QuoteEnd(code, t.i + 1, char), !.tokens = Append(t.tokens, StrMarker)]
    ELSE [t EXCEPT !.i = t.i + 1, !.tokens = Append(t.tokens, <<char>>)]

RECURSIVE Tokenize(_, _)
\* the tokenizer loop of preprocess_cpp: the loop variables when the loop ends
Tokenize(code, t) ==
  IF t.i > Len(code) THEN t ELSE Tokenize(code, TokenizerTurn(code, t))

\* the run the tokenizer loop cuts off at position i: its kind ("word", "number",
\* "quoted", "other"), its spelling and the position after it
LexemeAt(code, i) ==
  LET char == code[i]
      e == IF isalpha(char) \/ char = "_" THEN WordEnd(code, i)
           ELSE IF isdigit(char) THEN NumberEnd(code, i)
           ELSE IF char = "\"" \/ char = "'" THEN QuoteEnd(code, i + 1, char)
           ELSE i + 1
      kind == IF isalpha(char) \/ char = "_" THEN "word"
              ELSE IF isdigit(char) THEN "number"
              ELSE IF char = "\"" \/ char = "'" THEN "quoted"
              ELSE "other"
  IN [kind |-> kind, text |-> Slice(code, i - 1, e - 1), next |-> e]

RECURSIVE Lexemes(_, _)
\* the runs the tokenizer loop cuts the text into, from position i on
Lexemes(code, i) ==
  IF i > Len(code) THEN <<>>
  ELSE LET l == LexemeAt(code, i)
       IN <<[kind |-> l.kind, text |-> l.text]>> \o Lexemes(code, l.next)

\* lines 26-30: comment removal
StripComments(self, code) ==
  IF self.ignore_comments THEN RemoveCppComments(RemoveCComments(code, 1), 1) ELSE code

\* lines 33-37: whitespace normalisation
StripWhitespace(self, code) ==
  IF self.ignore_whitespace THEN StripAroundOperators(CollapseWhitespace(code)) ELSE code

\* lines 39-109: the tokens joined by single spaces, or the text as it is
NormalizeIdentifiers(self, code) ==
  IF self.normalize_identifiers
    THEN Join(Tokenize(code, TokenizerStart).tokens, <<" ">>)
    ELSE code

preprocess_cpp(self, code) ==
  NormalizeIdentifiers(self, StripWhitespace(self, StripComments(self, code)))

(***************************************************************************)
(* Rationals num / den with a positive denominator                         *)
(***************************************************************************)
Rat(n, d) == [num |-> n, den |-> d]

RatEq(a, b) == a.num * b.den = b.num * a.den

RatLess(a, b) == a.num * b.den < b.num * a.den

RatGeq(a, b) == a.num * b.den >= b.num * a.den

RatAdd(a, b) == Rat(a.num * b.den + b.num * a.den, a.den * b.den)

RatMul(a, b) == Rat(a.num * b.num, a.den * b.den)

RECURSIVE Gcd(_, _)
Gcd(a, b) == IF b = 0 THEN a ELSE Gcd(b, a % b)

\* the same rational in lowest terms
RatNorm(a) ==
  LET g == Gcd(a.num, a.den) IN IF g = 0 THEN a ELSE Rat(a.num \div g, a.den \div g)

(***************************************************************************)
(* calculate_moss_similarity                                               *)
(***************************************************************************)
\* the default arguments k=5, w=10
KGramSize == 5

WindowSize == 10

\* the characters a text may hold, in the order of their code points
CodePoints ==
  <<"\t", "\n", "\r", " ", "!", "\"", "#", "$", "%", "&", "'", "(", ")", "*", "+", ",", "-", ".", "/",
    "0", "1", "2", "3", "4", "5", "6", "7", "8", "9", ":", ";", "<", "=", ">", "?", "@",
    "A", "B", "C", "D", "E", "F", "G", "H", "I", "J", "K", "L", "M",
    "N", "O", "P", "Q", "R", "S", "T", "U", "V", "W", "X", "Y", "Z",
    "[", "\\", "]", "^", "_",
    "a", "b", "c", "d", "e", "f", "g", "h", "i", "j", "k", "l", "m",
    "n", "o", "p", "q", "r", "s", "t", "u", "v", "w", "x", "y", "z",
    "{", "|", "}", "~">>

CodePointOf == [c \in {CodePoints[n] : n \in 1..Len(CodePoints)} |->
                  CHOOSE n \in 1..Len(CodePoints) : CodePoints[n] = c]

RECURSIVE Scramble(_, _, _)
\* a deterministic mixing of the characters lo..hi of s, in 0..65520
Scramble(s, lo, hi) ==
  IF lo > hi THEN 17
  ELSE IF lo = hi THEN CodePointOf[s[lo]]
  ELSE LET mid == (lo + hi) \div 2
       IN (Scramble(s, lo, mid) * 31 + Scramble(s, mid + 1, hi) * 7919 + 13) % 65521

\* int(hashlib.md5(kgram.encode()).hexdigest(), 16): an injective image of the string,
\* ordered by its scrambled part first
md5(kgram) == <<Scramble(kgram, 1, Len(kgram)), kgram>>

\* the order of two texts by code points
TextLess(s, t) ==
  LET differ == {n \in 1..Min(Len(s), Len(t)) : s[n] # t[n]}
  IN IF differ = {} THEN Len(s) < Len(t)
     ELSE CodePointOf[s[Minimum(differ)]] < CodePointOf[t[Minimum(differ)]]

\* h1 < h2 on digests
HashLess(h1, h2) == h1[1] < h2[1] \/ (h1[1] = h2[1] /\ TextLess(h1[2], h2[2]))

get_kgram_hashes(code, k) ==
  LET tokens == SplitWs(code)
  IN IF Len(tokens) < k THEN <<>>
     ELSE [i \in 1..(Len(tokens) - k + 1) |-> md5(Join(Slice(tokens, i - 1, i - 1 + k), <<" ">>))]

\* min(window)
MinHash(window) ==
  CHOOSE h \in {window[n] : n \in 1..Len(window)} :
    \A n \in 1..Len(window) : ~HashLess(window[n], h)

\* window.index(min_hash), 0-based
IndexOf(window, h) == (CHOOSE n \in 1..Len(window) :
                         window[n] = h /\ \A m \in 1..(n - 1) : window[m] # h) - 1

RECURSIVE WinnowLoop_only_smaller(_, _, _, _)
\* a minimum appended only when it is below the last appended hash
WinnowLoop_only_smaller(hashes, w, i, fingerprints) ==
  IF i > Len(hashes) - w THEN fingerprints
  ELSE LET window == Slice(hashes, i, i + w)
           min_hash == MinHash(window)
           min_pos == IndexOf(window, min_hash) + i
       IN IF fingerprints = <<>> \/ HashLess(min_hash, fingerprints[Len(fingerprints)][1])
            THEN WinnowLoop_only_smaller(hashes, w, i + 1,
                                         Append(fingerprints, <<min_hash, min_pos>>))
            ELSE WinnowLoop_only_smaller(hashes, w, i + 1, fingerprints)

RECURSIVE WinnowLoop(_, _, _, _)
\* the loop over the windows i (0-based) .. len(hashes)-w
WinnowLoop(hashes, w, i, fingerprints) ==
  IF i > Len(hashes) - w THEN fingerprints
  ELSE LET window == Slice(hashes, i, i + w)
           min_hash == MinHash(window)
           min_pos == IndexOf(window, min_hash) + i
       IN IF fingerprints = <<>> \/ fingerprints[Len(fingerprints)][1] # min_hash
            THEN WinnowLoop(hashes, w, i + 1, Append(fingerprints, <<min_hash, min_pos>>))
            ELSE WinnowLoop(hashes, w, i + 1, fingerprints)

winnow(hashes, w) ==
  IF Len(hashes) < w THEN hashes
  ELSE LET fingerprints == WinnowLoop(hashes, w, 0, <<>>)
       IN [n \in 1..Len(fingerprints) |-> fingerprints[n][1]]

ToSet(s) == {s[n] : n \in 1..Len(s)}

\* two empty fingerprint sets taken for identical: 1.0 instead of 0
Jaccard_both_empty_one(fingerprints1, fingerprints2) ==
  IF fingerprints1 = {} /\ fingerprints2 = {} THEN Rat(1, 1)
  ELSE IF fingerprints1 = {} \/ fingerprints2 = {} THEN Rat(0, 1)
  ELSE Rat(Cardinality(fingerprints1 \cap fingerprints2),
           Cardinality(fingerprints1 \cup fingerprints2))

\* lines 169-177: 0 when a fingerprint set is empty, else the Jaccard index
Jaccard(fingerprints1, fingerprints2) ==
  IF fingerprints1 = {} \/ fingerprints2 = {} THEN Rat(0, 1)
  ELSE Rat(Cardinality(fingerprints1 \cap fingerprints2),
           Cardinality(fingerprints1 \cup fingerprints2))

moss_of_processed(processed_code1, processed_code2, k, w) ==
  Jaccard(ToSet(winnow(get_kgram_hashes(processed_code1, k), w)),
          ToSet(winnow(get_kgram_hashes(processed_code2, k), w)))

\* identifier_map and identifier_counter kept on the object: the second input is
\* canonicalized with the table the first one left behind
calculate_moss_similarity_shared_map(self, c1, c2) ==
  LET clean1 == StripWhitespace(self, StripComments(self, c1))
      clean2 == StripWhitespace(self, StripComments(self, c2))
      left == Tokenize(clean1, TokenizerStart)
      processed2 == IF self.normalize_identifiers
                      THEN Join(Tokenize(clean2, [left EXCEPT !.i = 1, !.tokens = <<>>]).tokens,
                                <<" ">>)
                      ELSE clean2
  IN moss_of_processed(preprocess_cpp(self, c1), processed2, KGramSize, WindowSize)

calculate_moss_similarity(self, c1, c2) ==
  moss_of_processed(preprocess_cpp(self, c1), preprocess_cpp(self, c2), KGramSize, WindowSize)

(***************************************************************************)
(* calculate_structure_similarity                                          *)
(***************************************************************************)
\* the first position >= i of code that holds no \w character
WordRunEnd(code, i) ==
  IF i > Len(code) THEN i
  ELSE CHOOSE j \in i..(Len(code) + 1) :
         /\ j > Len(code) \/ ~IsWord(code[j])
         /\ \A m \in i..(j - 1) : IsWord(code[m])

\* a match of r'\w+\s+(\w+)\s*\([^)]*\)\s*{[^}]*}' starting at position i:
\* [found, name (group 1), next (the position after the match)]
FunctionMatch(code, i) ==
  LET e1 == WordRunEnd(code, i)
      s1 == SpaceRunEnd(code, e1)
      e2 == WordRunEnd(code, s1)
      s2 == SpaceRunEnd(code, e2)
      close == IF s2 <= Len(code) /\ code[s2] = "(" THEN Find(code, s2 + 1, <<")">>) ELSE 0
      s3 == SpaceRunEnd(code, close + 1)
      brace == IF close > 0 /\ s3 <= Len(code) /\ code[s3] = "{"
                 THEN Find(code, s3 + 1, <<"}">>) ELSE 0
  IN IF e1 > i /\ s1 > e1 /\ e2 > s1 /\ close > 0 /\ brace > 0
       THEN [found |-> TRUE, name |-> Slice(code, s1 - 1, e2 - 1), next |-> brace + 1]
       ELSE [found |-> FALSE, name |-> <<>>, next |-> i + 1]

\* a match of r'class\s+(\w+)[^{]*{[^}]*}' starting at position i
ClassMatch(code, i) ==
  LET s1 == SpaceRunEnd(code, i + 5)
      e2 == WordRunEnd(code, s1)
      open == Find(code, e2, <<"{">>)
      brace == IF open > 0 THEN Find(code, open + 1, <<"}">>) ELSE 0
  IN IF StartsAt(code, i, <<"c", "l", "a", "s", "s">>) /\ s1 > i + 5 /\ e2 > s1 /\ brace > 0
       THEN [found |-> TRUE, name |-> Slice(code, s1 - 1, e2 - 1), next |-> brace + 1]
       ELSE [found |-> FALSE, name |-> <<>>, next |-> i + 1]

RECURSIVE MatchedNames(_, _)
\* re.findall over matches, the match of the pattern at each position: the names of
\* the matches found left to right without overlap, from the first position >= i
MatchedNames(matches, i) ==
  IF \A j \in i..Len(matches) : ~matches[j].found THEN <<>>
  ELSE LET start == Minimum({j \in i..Len(matches) : matches[j].found})
       IN <<matches[start].name>> \o MatchedNames(matches, matches[start].next)

\* re.findall(function_pattern, code), from position i
FindAllFunctions(code, i) ==
  MatchedNames([j \in 1..Len(code) |-> FunctionMatch(code, j)], i)

\* re.findall(class_pattern, code), from position i
FindAllClasses(code, i) ==
  MatchedNames([j \in 1..Len(code) |-> ClassMatch(code, j)], i)

\* the control keywords counted, in the order of the loop
ControlKeywords ==
  <<<<"i", "f">>, <<"e", "l", "s", "e">>, <<"f", "o", "r">>, <<"w", "h", "i", "l", "e">>,
    <<"s", "w", "i", "t", "c", "h">>, <<"c", "a", "s", "e">>>>

\* len(re.findall(rf'\b{ctrl}\b', code))
CountWord(code, ctrl) ==
  Cardinality({i \in 1..Len(code) :
    /\ StartsAt(code, i, ctrl)
    /\ (i = 1 \/ ~IsWord(code[i - 1]))
    /\ (i + Len(ctrl) > Len(code) \/ ~IsWord(code[i + Len(ctrl)]))})

\* collections.Counter(names): name -> number of occurrences
Counter(names) ==
  [w \in ToSet(names) |-> Cardinality({n \in 1..Len(names) : names[n] = w})]

extract_structure(code) ==
  [functions |-> Counter(FindAllFunctions(code, 1)),
   classes |-> Counter(FindAllClasses(code, 1)),
   control_structures |->
     [n \in 1..Len(ControlKeywords) |-> CountWord(code, ControlKeywords[n])]]

RECURSIVE SumOver(_, _)
\* the sum of f over the finite set S
SumOver(f, S) ==
  IF S = {} THEN 0 ELSE LET x == CHOOSE y \in S : TRUE IN f[x] + SumOver(f, S \ {x})

\* sum((counter1 & counter2).values()): the minimum of the two counts
CounterAndSum(counter1, counter2) ==
  LET both == DOMAIN counter1 \cap DOMAIN counter2
  IN SumOver([w \in both |-> Min(counter1[w], counter2[w])], both)

\* sum((counter1 | counter2).values()): the maximum of the two counts
CounterOrSum(counter1, counter2) ==
  LET any == DOMAIN counter1 \cup DOMAIN counter2
      cnt(c, w) == IF w \in DOMAIN c THEN c[w] ELSE 0
  IN SumOver([w \in any |-> Max(cnt(counter1, w), cnt(counter2, w))], any)

\* two empty multisets scored 0.0 like one empty multiset
count_similarity_empty_zero(counter1, counter2) ==
  IF DOMAIN counter1 = {} \/ DOMAIN counter2 = {} THEN Rat(0, 1)
  ELSE LET common == CounterAndSum(counter1, counter2)
           total == CounterOrSum(counter1, counter2)
       IN IF total > 0 THEN Rat(common, total) ELSE Rat(0, 1)

count_similarity(counter1, counter2) ==
  IF DOMAIN counter1 = {} /\ DOMAIN counter2 = {} THEN Rat(1, 1)
  ELSE IF DOMAIN counter1 = {} \/ DOMAIN counter2 = {} THEN Rat(0, 1)
  ELSE LET common == CounterAndSum(counter1, counter2)
           total == CounterOrSum(counter1, counter2)
       IN IF total > 0 THEN Rat(common, total) ELSE Rat(0, 1)

Abs(x) == IF x < 0 THEN 0 - x ELSE x

\* max_possible_diff += val1 for max_possible_diff += max_val
control_similarity_first_count(ctrl1, ctrl2) ==
  LET all_keys == DOMAIN ctrl1 \cup DOMAIN ctrl2
      get(c, key) == IF key \in DOMAIN c THEN c[key] ELSE 0
      differences == SumOver([key \in all_keys |-> Abs(get(ctrl1, key) - get(ctrl2, key))], all_keys)
      max_possible_diff == SumOver([key \in all_keys |-> get(ctrl1, key)], all_keys)
  IN IF all_keys = {} THEN Rat(1, 1)
     ELSE IF max_possible_diff > 0
       THEN Rat(max_possible_diff - differences, max_possible_diff)
       ELSE Rat(1, 1)

control_similarity(ctrl1, ctrl2) ==
  LET all_keys == DOMAIN ctrl1 \cup DOMAIN ctrl2
      get(c, key) == IF key \in DOMAIN c THEN c[key] ELSE 0
      differences == SumOver([key \in all_keys |-> Abs(get(ctrl1, key) - get(ctrl2, key))], all_keys)
      max_possible_diff ==
        SumOver([key \in all_keys |-> Max(get(ctrl1, key), get(ctrl2, key))], all_keys)
  IN IF all_keys = {} THEN Rat(1, 1)
     ELSE IF max_possible_diff > 0
       THEN Rat(max_possible_diff - differences, max_possible_diff)
       ELSE Rat(1, 1)

\* 0.4 * func_sim + 0.3 * class_sim + 0.3 * ctrl_sim
StructureWeighted(func_sim, class_sim, ctrl_sim) ==
  RatNorm(RatAdd(RatAdd(RatMul(Rat(4, 10), func_sim), RatMul(Rat(3, 10), class_sim)),
                 RatMul(Rat(3, 10), ctrl_sim)))

\* lines 207-242: the score of two extracted structures
structure_similarity(structure1, structure2) ==
  StructureWeighted(count_similarity(structure1.functions, structure2.functions),
                    count_similarity(structure1.classes, structure2.classes),
                    control_similarity(structure1.control_structures,
                                       structure2.control_structures))

calculate_structure_similarity(c1, c2) ==
  structure_similarity(extract_structure(c1), extract_structure(c2))

(***************************************************************************)
(* difflib.SequenceMatcher(None, a, b), for sequences shorter than the 200 *)
(* elements at which its automatic junk heuristic starts                   *)
(***************************************************************************)
\* the number of equal elements of a[i:ahi] and b[j:bhi] from their starts (0-based)
RunLength(a, b, i, j, ahi, bhi) ==
  CHOOSE k \in 0..Min(ahi - i, bhi - j) :
    /\ \A m \in 1..k : a[i + m] = b[j + m]
    /\ k = Min(ahi - i, bhi - j) \/ a[i + k + 1] # b[j + k + 1]

\* Match(a, b, size): size elements from a[a] equal those from b[b] (0-based)
Match(i, j, k) == [a |-> i, b |-> j, size |-> k]

\* find_longest_match(alo, ahi, blo, bhi): the longest common block, of those the one
\* starting earliest in a, of those the one starting earliest in b; (alo, blo, 0) if none
find_longest_match(a, b, alo, ahi, blo, bhi) ==
  LET starts == {x \in (alo..(ahi - 1)) \X (blo..(bhi - 1)) : a[x[1] + 1] = b[x[2] + 1]}
      found == {Match(x[1], x[2], RunLength(a, b, x[1], x[2], ahi, bhi)) : x \in starts}
  IN IF found = {} THEN Match(alo, blo, 0)
     ELSE LET bestsize == Maximum({x.size : x \in found})
              besti == Minimum({x.a : x \in {y \in found : y.size = bestsize}})
              bestj == Minimum({x.b : x \in {y \in found : y.size = bestsize /\ y.a = besti}})
          IN Match(besti, bestj, bestsize)

RECURSIVE MatchingBlocksIn(_, _, _, _, _, _)
\* the blocks found in a[alo:ahi], b[blo:bhi], in sorted order
MatchingBlocksIn(a, b, alo, ahi, blo, bhi) ==
  LET x == find_longest_match(a, b, alo, ahi, blo, bhi)
      i == x.a
      j == x.b
      k == x.size
  IN IF k = 0 THEN <<>>
     ELSE (IF alo < i /\ blo < j THEN MatchingBlocksIn(a, b, alo, i, blo, j) ELSE <<>>)
          \o <<x>>
          \o (IF i + k < ahi /\ j + k < bhi THEN MatchingBlocksIn(a, b, i + k, ahi, j + k, bhi) ELSE <<>>)

RECURSIVE CollapseAdjacent(_, _, _)
\* adjacent equal blocks merged into one; cur is the block being grown
CollapseAdjacent(blocks, cur, non_adjacent) ==
  IF blocks = <<>> THEN (IF cur.size > 0 THEN Append(non_adjacent, cur) ELSE non_adjacent)
  ELSE LET nxt == Head(blocks)
       IN IF cur.a + cur.size = nxt.a /\ cur.b + cur.size = nxt.b
            THEN CollapseAdjacent(Tail(blocks), Match(cur.a, cur.b, cur.size + nxt.size),
                                  non_adjacent)
            ELSE CollapseAdjacent(Tail(blocks), nxt,
                   IF cur.size > 0 THEN Append(non_adjacent, cur) ELSE non_adjacent)

\* get_matching_blocks(): the blocks, then the sentinel (len(a), len(b), 0)
get_matching_blocks(a, b) ==
  Append(CollapseAdjacent(MatchingBlocksIn(a, b, 0, Len(a), 0, Len(b)), Match(0, 0, 0), <<>>),
         Match(Len(a), Len(b), 0))

RECURSIVE SumSizes(_)
SumSizes(blocks) == IF blocks = <<>> THEN 0 ELSE Head(blocks).size + SumSizes(Tail(blocks))

\* the factor 2.0 forgotten
ratio_without_factor(a, b) ==
  IF Len(a) + Len(b) = 0 THEN Rat(1, 1)
  ELSE Rat(SumSizes(get_matching_blocks(a, b)), Len(a) + Len(b))

\* ratio(): 2.0 * matches / (len(a) + len(b)), 1.0 for two empty sequences
ratio(a, b) ==
  IF Len(a) + Len(b) = 0 THEN Rat(1, 1)
  ELSE Rat(2 * SumSizes(get_matching_blocks(a, b)), Len(a) + Len(b))

(***************************************************************************)
(* calculate_line_similarity, identify_similar_segments                    *)
(***************************************************************************)
NormalizedLines(self, code) == SplitOn(preprocess_cpp(self, code), "\n")

calculate_line_similarity(self, c1, c2) ==
  ratio(NormalizedLines(self, c1), NormalizedLines(self, c2))

\* the default argument min_length=3
MinLength == 3

\* lines 319-337: the segment reported for the block (i, j, size)
SegmentOf(c1, c2, block) ==
  LET i == block.a
      j == block.b
      size == block.size
      original_lines1 == SplitOn(c1, "\n")
      original_lines2 == SplitOn(c2, "\n")
      i_end == Min(i + size, Len(original_lines1))
      j_end == Min(j + size, Len(original_lines2))
      segment1 == Join(Slice(original_lines1, i, i_end), <<"\n">>)
      segment2 == Join(Slice(original_lines2, j, j_end), <<"\n">>)
  IN [file1_start_line |-> i + 1,
      file2_start_line |-> j + 1,
      length |-> size,
      file1_segment |-> segment1,
      file2_segment |-> segment2,
      similarity |-> ratio(segment1, segment2)]

RECURSIVE KeptSegments(_, _, _, _)
\* the loop over matching_blocks: a segment for every block with size >= min_length
KeptSegments(c1, c2, blocks, min_length) ==
  IF blocks = <<>> THEN <<>>
  ELSE (IF Head(blocks).size >= min_length THEN <<SegmentOf(c1, c2, Head(blocks))>> ELSE <<>>)
       \o KeptSegments(c1, c2, Tail(blocks), min_length)

RECURSIVE InsertBySimilarity_ascending(_, _)
\* reverse=True forgotten: lowest first
InsertBySimilarity_ascending(sorted, seg) ==
  IF sorted = <<>> THEN <<seg>>
  ELSE IF RatLess(seg.similarity, Head(sorted).similarity) THEN <<seg>> \o sorted
  ELSE <<Head(sorted)>> \o InsertBySimilarity_ascending(Tail(sorted), seg)

RECURSIVE InsertBySimilarity(_, _)
\* seg placed after every entry of the sorted list whose similarity is not smaller
InsertBySimilarity(sorted, seg) ==
  IF sorted = <<>> THEN <<seg>>
  ELSE IF RatLess(Head(sorted).similarity, seg.similarity) THEN <<seg>> \o sorted
  ELSE <<Head(sorted)>> \o InsertBySimilarity(Tail(sorted), seg)

RECURSIVE SortBySimilarity(_, _)
\* list.sort(key=similarity, reverse=True): stable, highest first
SortBySimilarity(segments, sorted) ==
  IF segments = <<>> THEN sorted
  ELSE SortBySimilarity(Tail(segments), InsertBySimilarity(sorted, Head(segments)))

identify_similar_segments(self, c1, c2) ==
  LET lines1 == NormalizedLines(self, c1)
      lines2 == NormalizedLines(self, c2)
      matching_blocks == get_matching_blocks(lines1, lines2)
  IN SortBySimilarity(KeptSegments(c1, c2, matching_blocks, MinLength), <<>>)

(***************************************************************************)
(* check_similarity                                                        *)
(***************************************************************************)
\* suspicious_segments[:5]
TopSegments == 5

\* 0.5 * moss_sim + 0.3 * structure_sim + 0.2 * line_sim
OverallWeighted(moss_sim, structure_sim, line_sim) ==
  RatNorm(RatAdd(RatAdd(RatMul(Rat(5, 10), moss_sim), RatMul(Rat(3, 10), structure_sim)),
                 RatMul(Rat(2, 10), line_sim)))

\* lines 266-275
SimilarityLevel(overall_sim) ==
  IF RatGeq(overall_sim, Rat(8, 10)) THEN "Very High"
  ELSE IF RatGeq(overall_sim, Rat(6, 10)) THEN "High"
  ELSE IF RatGeq(overall_sim, Rat(4, 10)) THEN "Moderate"
  ELSE IF RatGeq(overall_sim, Rat(2, 10)) THEN "Low"
  ELSE "Very Low"

\* the stages of check_similarity an exception can come from
Stages == {"moss", "structure", "line", "segments"}

\* lines 263-292: the report made of the three scores and the segments found
ReportOf(moss_sim, structure_sim, line_sim, suspicious_segments) ==
  LET overall_sim == OverallWeighted(moss_sim, structure_sim, line_sim)
  IN [summary |-> [similarity_level |-> SimilarityLevel(overall_sim),
                   overall_similarity |-> overall_sim],
      details |-> [moss_similarity |-> moss_sim,
                   structure_similarity |-> structure_sim,
                   line_similarity |-> line_sim],
      suspicious_segments |-> Slice(suspicious_segments, 0, TopSegments)]

\* lines 257-292: the report of a run in which no stage raised
Report(self, c1, c2) ==
  ReportOf(calculate_moss_similarity(self, c1, c2),
           calculate_structure_similarity(c1, c2),
           calculate_line_similarity(self, c1, c2),
           identify_similar_segments(self, c1, c2))

\* the segment extraction moved behind the try block: its exception reaches the caller
check_similarity_segments_unprotected(self, c1, c2, raised) ==
  IF raised = "segments" THEN [unhandled |-> raised]
  ELSE IF raised \in Stages THEN [error |-> raised]
  ELSE Report(self, c1, c2)

\* check_similarity in a run where the stage `raised` raises an exception ("none": no
\* stage does): the except clause turns the exception into {'error': str(e)}
check_similarity(self, c1, c2, raised) ==
  IF raised \in Stages THEN [error |-> raised] ELSE Report(self, c1, c2)

(***************************************************************************)
(* The state machine: a checker object, its options, and the calls made    *)
(***************************************************************************)
Options == <<ignore_comments, ignore_whitespace, normalize_identifiers>>

\* __init__: every option on, nothing called yet
Init ==
  /\ ignore_comments = TRUE
  /\ ignore_whitespace = TRUE
  /\ normalize_identifiers = TRUE
  /\ op = "init"
  /\ code1 = <<>>
  /\ code2 = <<>>
  /\ fault = "none"
  /\ result = <<>>

\* lines 405-409: every analysis starts with a fresh checker whose options are set
\* from the check boxes; the checker then serves one call
SetOptions ==
  \E ic \in BOOLEAN, iw \in BOOLEAN, ni \in BOOLEAN :
    /\ ignore_comments' = ic
    /\ ignore_whitespace' = iw
    /\ normalize_identifiers' = ni
    /\ op' = "init"
    /\ code1' = <<>>
    /\ code2' = <<>>
    /\ fault' = "none"
    /\ result' = <<>>

\* a call of preprocess_cpp on one of the given texts
PreprocessCpp(texts) ==
  /\ op = "init"
  /\ \E c \in texts :
       /\ op' = "preprocess_cpp"
       /\ code1' = c
       /\ code2' = <<>>
       /\ fault' = "none"
       /\ result' = preprocess_cpp(Self, c)
       /\ UNCHANGED Options

\* a call of calculate_moss_similarity on one of the given pairs of texts
CalculateMossSimilarity(pairs) ==
  /\ op = "init"
  /\ \E pair \in pairs :
       /\ op' = "calculate_moss_similarity"
       /\ code1' = pair[1]
       /\ code2' = pair[2]
       /\ fault' = "none"
       /\ result' = calculate_moss_similarity(Self, pair[1], pair[2])
       /\ UNCHANGED Options

\* a call of calculate_line_similarity on one of the given pairs of texts
CalculateLineSimilarity(pairs) ==
  /\ op = "init"
  /\ \E pair \in pairs :
       /\ op' = "calculate_line_similarity"
       /\ code1' = pair[1]
       /\ code2' = pair[2]
       /\ fault' = "none"
       /\ result' = calculate_line_similarity(Self, pair[1], pair[2])
       /\ UNCHANGED Options

\* a call of check_similarity on one of the given pairs, in which one of the given
\* stages raises ("none": none does)
CheckSimilarity(pairs, faults) ==
  /\ op = "init"
  /\ \E pair \in pairs, raised \in faults :
       /\ op' = "check_similarity"
       /\ code1' = pair[1]
       /\ code2' = pair[2]
       /\ fault' = raised
       /\ result' = check_similarity(Self, pair[1], pair[2], raised)
       /\ UNCHANGED Options

(***************************************************************************)
(* Inputs                                                                  *)
(***************************************************************************)
RECURSIVE Flatten(_)
\* the concatenation of a sequence of texts
Flatten(parts) == IF parts = <<>> THEN <<>> ELSE Head(parts) \o Flatten(Tail(parts))

\* the sequences of at most n elements of the set S
SeqsUpTo(S, n) == UNION {[1..m -> S] : m \in 0..n}

\* the texts made of at most n of the given fragments
FragmentTexts(fragments, n) == {Flatten(parts) : parts \in SeqsUpTo(fragments, n)}

\* the texts made of at most n of the given lines
LineTexts(lines, n) == {Join(ls, <<"\n">>) : ls \in SeqsUpTo(lines, n)}

\* --- inputs of the Normalizer ---
MaxNormFragments == 3

NormFragments ==
  {<<"a">>, <<"b", "1">>, <<"i", "f">>, <<"1">>, <<"'", "s", "'">>, <<" ">>, <<"\n">>,
   <<"+">>, <<"/">>, <<"*">>, <<"#">>}

NormTexts == FragmentTexts(NormFragments, MaxNormFragments)

NextNorm == SetOptions \/ PreprocessCpp(NormTexts)

SpecNorm == Init /\ [][NextNorm]_vars

\* --- inputs of calculate_moss_similarity ---
MaxMossFragments == 3

MossFragments ==
  {<<"a", "=", "1", ";">>, <<"b", "+", "a", ";">>, <<"i", "f", "(", "b", ")">>,
   <<"c">>, <<" ">>, <<"/", "*", "*", "/">>}

MossTexts == FragmentTexts(MossFragments, MaxMossFragments)

\* renamings of the identifiers a, b, c: two injective ones onto non-keywords, one
\* that is not injective, one onto a keyword
Renamings ==
  {[a |-> <<"x">>, b |-> <<"y", "2">>, c |-> <<"z">>],
   [a |-> <<"b">>, b |-> <<"a">>, c |-> <<"c">>],
   [a |-> <<"x">>, b |-> <<"x">>, c |-> <<"c">>],
   [a |-> <<"a">>, b |-> <<"i", "f">>, c |-> <<"c">>]}

\* the text with every word a, b, c replaced by its image under rho
RenameWords(code, rho) ==
  LET lexemes == Lexemes(code, 1)
  IN Flatten([n \in 1..Len(lexemes) |->
       IF lexemes[n].kind = "word" /\ lexemes[n].text = <<"a">> THEN rho.a
       ELSE IF lexemes[n].kind = "word" /\ lexemes[n].text = <<"b">> THEN rho.b
       ELSE IF lexemes[n].kind = "word" /\ lexemes[n].text = <<"c">> THEN rho.c
       ELSE lexemes[n].text])

\* texts the first input is compared with besides itself and its renamings
MossPartners ==
  {<<>>, <<"c", " ", "c">>,
   <<"a", "=", "1", ";", "b", "+", "a", ";">>,
   <<"x", "=", "1", ";", "i", "f", "(", "x", ")", "y", "+", "x", ";">>}

MossPairs ==
  {<<c, c>> : c \in MossTexts}
    \cup {<<c, RenameWords(c, rho)>> : c \in MossTexts, rho \in Renamings}
    \cup (MossTexts \X MossPartners)

NextMoss == SetOptions \/ CalculateMossSimilarity(MossPairs)

SpecMoss == Init /\ [][NextMoss]_vars

\* --- inputs of check_similarity: texts of a few statement lines ---
MaxLines == 2

CheckLines ==
  {<<"a", " ", "=", " ", "1", ";">>,
   <<"2", " ", "+", " ", "3">>,
   <<"i", "n", "t", " ", "f", "(", ")", "{", "i", "f", "(", "b", ")", "}">>}

CheckTexts == LineTexts(CheckLines, MaxLines)

CheckPairs == CheckTexts \X CheckTexts

\* --- inputs of calculate_line_similarity: texts of a few one-character lines ---
MaxRatioLines == 3

RatioLines == {<<"+">>, <<"-">>, <<"1">>}

\* pairs of texts with the same number of lines
RatioPairs ==
  UNION {{<<Join(ls1, <<"\n">>), Join(ls2, <<"\n">>)>> :
            ls1 \in [1..n -> RatioLines], ls2 \in [1..n -> RatioLines]} :
         n \in 0..MaxRatioLines}

NextCheck ==
  \/ SetOptions
  \/ CheckSimilarity(CheckPairs, Stages \cup {"none"})
  \/ CalculateLineSimilarity(RatioPairs)

SpecCheck == Init /\ [][NextCheck]_vars

(***************************************************************************)
(* Claims about the Normalizer (SpecNorm)                                  *)
(***************************************************************************)
\* the tokens of a normalized rendering, the separating spaces dropped
RenderedTokens(rendering) == SplitWs(rendering)

HasMarker(rendering) ==
  LET tokens == RenderedTokens(rendering)
  IN \E n \in 1..Len(tokens) : tokens[n] \in {NumMarker, StrMarker}

\* C4 as stated: a second pass of preprocess_cpp leaves the result of the first
\* unchanged, for every text and every setting of the options.
C4_Idempotent ==
  op = "preprocess_cpp" => preprocess_cpp(Self, result) = result

\* every token of the rendering is a word other than a marker (a keyword or a
\* canonical name) or one of the operator characters of the whitespace rule
OnlyWordsAndOperators(rendering) ==
  LET tokens == RenderedTokens(rendering)
  IN \A n \in 1..Len(tokens) :
       \/ ((isalpha(tokens[n][1]) \/ tokens[n][1] = "_") /\ tokens[n] \notin {NumMarker, StrMarker})
       \/ (Len(tokens[n]) = 1 /\ tokens[n][1] \in OperatorChars)

\* C4 as amended: with ignoreWhitespace and normalizeIdentifiers on, a second pass
\* leaves the result of the first unchanged whenever that result holds keywords,
\* canonical identifier names and operator characters only; and whenever the first
\* pass emitted a NUM or STR marker the second pass changes the result (the marker
\* is read as an identifier and renamed).
C4_IdempotentWithoutMarkers ==
  (op = "preprocess_cpp" /\ ignore_whitespace /\ normalize_identifiers)
    => /\ OnlyWordsAndOperators(result) => preprocess_cpp(Self, result) = result
       /\ HasMarker(result) => preprocess_cpp(Self, result) # result

\* a first pass that emitted two different canonical names and an operator between
\* them, and that the second pass leaves unchanged
C4_Witness ==
  /\ op = "preprocess_cpp" /\ ignore_whitespace /\ normalize_identifiers
  /\ OnlyWordsAndOperators(result)
  /\ CanonicalName(1) \in ToSet(RenderedTokens(result))
  /\ <<"+">> \in ToSet(RenderedTokens(result))
  /\ preprocess_cpp(Self, result) = result

\* the rendering the claim C10 expects with normalizeIdentifiers off: the tokens of
\* the tokenizer loop joined by single spaces, markers for the literals, every word
\* with its own spelling
LiteralRendering(code) ==
  LET lexemes == Lexemes(code, 1)
  IN Join([n \in 1..Len(lexemes) |->
             IF lexemes[n].kind = "number" THEN NumMarker
             ELSE IF lexemes[n].kind = "quoted" THEN StrMarker
             ELSE lexemes[n].text], <<" ">>)

\* C10 as stated: with normalizeIdentifiers off preprocess_cpp still returns the
\* token sequence joined by single spaces, literals replaced by their markers, and
\* the number of whitespace-separated tokens is that of the run with the option on.
C10_StillTokenizes ==
  (op = "preprocess_cpp" /\ ~normalize_identifiers)
    => /\ result = LiteralRendering(StripWhitespace(Self, StripComments(Self, code1)))
       /\ Len(RenderedTokens(result))
            = Len(RenderedTokens(preprocess_cpp([Self EXCEPT !.normalize_identifiers = TRUE], code1)))

(***************************************************************************)
(* Claims about calculate_moss_similarity (SpecMoss)                       *)
(***************************************************************************)
\* the number of tokens the Fingerprint Engine splits the rendering of a text into
TokenCount(self, code) == Len(SplitWs(preprocess_cpp(self, code)))

\* C3: if the normalized rendering of either input splits into fewer than k tokens,
\* calculate_moss_similarity returns 0, whatever the other input is (the same text
\* included).
C3_ShortInputScoresZero ==
  (op = "calculate_moss_similarity"
     /\ (TokenCount(Self, code1) < KGramSize \/ TokenCount(Self, code2) < KGramSize))
    => RatEq(result, Rat(0, 1))

\* a short first input compared with a second input that has k-grams
C3_Witness ==
  /\ op = "calculate_moss_similarity"
  /\ TokenCount(Self, code1) \in 1..(KGramSize - 1)
  /\ TokenCount(Self, code2) > KGramSize
  /\ result = Rat(0, 1)

\* B is A with its non-keyword identifiers renamed injectively onto non-keyword
\* identifiers, all else unchanged: the tokenizer loop cuts both texts into the same
\* runs, a run that is no identifier is spelled the same, and two identifier runs
\* are equal in A exactly when they are equal in B
IsRenaming(self, A, B) ==
  LET la == Lexemes(StripWhitespace(self, StripComments(self, A)), 1)
      lb == Lexemes(StripWhitespace(self, StripComments(self, B)), 1)
      ident(l) == l.kind = "word" /\ l.text \notin cpp_keywords
  IN /\ Len(la) = Len(lb)
     /\ \A n \in 1..Len(la) :
          /\ ident(la[n]) <=> ident(lb[n])
          /\ ~ident(la[n]) => la[n] = lb[n]
     /\ \A n \in 1..Len(la), m \in 1..Len(la) :
          (ident(la[n]) /\ ident(la[m])) => ((la[n].text = la[m].text) <=> (lb[n].text = lb[m].text))

\* C7: with normalizeIdentifiers on, if B is A with its identifiers renamed
\* injectively, both have the same normalized rendering, the fingerprint similarity
\* of (A, B) is that of (A, A), and it is 1.0 when A has at least k tokens.
C7_RenameInvariant ==
  (op = "calculate_moss_similarity" /\ normalize_identifiers /\ IsRenaming(Self, code1, code2))
    => /\ preprocess_cpp(Self, code1) = preprocess_cpp(Self, code2)
       /\ RatEq(result, calculate_moss_similarity(Self, code1, code1))
       /\ TokenCount(Self, code1) >= KGramSize => RatEq(result, Rat(1, 1))

\* two different texts with at least k tokens, one a renaming of the other that
\* swaps two identifiers, scored 1.0
C7_Witness ==
  /\ op = "calculate_moss_similarity" /\ normalize_identifiers
  /\ code1 # code2
  /\ IsRenaming(Self, code1, code2)
  /\ code2 = RenameWords(code1, [a |-> <<"b">>, b |-> <<"a">>, c |-> <<"c">>])
  /\ TokenCount(Self, code1) >= KGramSize
  /\ RatEq(result, Rat(1, 1))

\* --- inputs of the segment extraction: a first text of blocks of three equal lines,
\* --- a second text with the same blocks, a line of junk between them, where a
\* --- block may carry a comment on its first line; and texts with a moved block
MaxBlocks == 6

BlockLetters == <<"a", "b", "c", "d", "e", "f", "g", "h">>

Block(letter) == <<letter, "\n", letter, "\n", letter>>

CommentedBlock(letter) == <<letter, "/", "/", letter, "\n", letter, "\n", letter>>

BlockPairs ==
  UNION {{<<Join([k \in 1..n |-> Block(BlockLetters[k])], <<"\n">>),
            Join([k \in 1..n |-> IF commented[k] THEN CommentedBlock(BlockLetters[k])
                                                 ELSE Block(BlockLetters[k])],
                 <<"\n", "#", "\n">>)>> :
          commented \in [1..n -> BOOLEAN]} : n \in 0..MaxBlocks}

MovedLines == <<"a", "\n", "b", "\n", "c", "\n", "d">>

MovedPairs ==
  {<<MovedLines \o <<"\n">> \o rest, rest \o <<"\n">> \o MovedLines>> :
     rest \in {<<"e">>, <<"e", "\n", "f">>, <<"e", "\n", "e", "\n", "e">>}}

\* four lines, compared with the same lines behind a comment or a quoted literal
\* that spans lines, and behind a comment that does not
ShiftedPairs ==
  {<<MovedLines, head \o MovedLines>> :
     head \in {<<"/", "*", "\n", "*", "/">>,
               <<"x", "\n", "/", "*", "\n", "\n", "*", "/", "\n">>,
               <<"/", "/", "x", "\n">>,
               <<"\"", "\n", "\"", "\n">>}}

SegmentPairs == BlockPairs \cup MovedPairs \cup ShiftedPairs

NextSegments == SetOptions \/ CheckSimilarity(SegmentPairs, {"none"})

SpecSegments == Init /\ [][NextSegments]_vars

(***************************************************************************)
(* Claims about check_similarity, checked under SpecCheck                  *)
(***************************************************************************)
\* check_similarity has returned a report
Reported == op = "check_similarity" /\ fault = "none"

\* C1 as stated: check_similarity(A, A) reports 1.0 for the three sub-scores and for
\* the overall score, and the level "Very High", for every text A.
C1_IdenticalAllOne ==
  (Reported /\ code1 = code2)
    => /\ RatEq(result.details.moss_similarity, Rat(1, 1))
       /\ RatEq(result.details.structure_similarity, Rat(1, 1))
       /\ RatEq(result.details.line_similarity, Rat(1, 1))
       /\ RatEq(result.summary.overall_similarity, Rat(1, 1))
       /\ result.summary.similarity_level = "Very High"

\* C1: check_similarity(A, A) reports structural similarity 1.0 and line similarity
\* 1.0 for every A; when A normalizes to at least k tokens the fingerprint similarity
\* and the overall similarity are 1.0 and the level is "Very High", and otherwise the
\* fingerprint similarity is 0, the overall similarity 0.5 and the level "Moderate".
C1_IdenticalScores ==
  (Reported /\ code1 = code2)
    => /\ RatEq(result.details.structure_similarity, Rat(1, 1))
       /\ RatEq(result.details.line_similarity, Rat(1, 1))
       /\ IF TokenCount(Self, code1) >= KGramSize
            THEN /\ RatEq(result.details.moss_similarity, Rat(1, 1))
                 /\ RatEq(result.summary.overall_similarity, Rat(1, 1))
                 /\ result.summary.similarity_level = "Very High"
            ELSE /\ RatEq(result.details.moss_similarity, Rat(0, 1))
                 /\ RatEq(result.summary.overall_similarity, Rat(1, 2))
                 /\ result.summary.similarity_level = "Moderate"

\* a text with a function, a control keyword and at least k tokens compared with itself
C1_Witness ==
  /\ Reported
  /\ code1 = code2
  /\ TokenCount(Self, code1) >= KGramSize
  /\ FindAllFunctions(code1, 1) # <<>>
  /\ result.summary.similarity_level = "Very High"

\* the report of the same call with its two arguments exchanged
Exchanged == Report(Self, code2, code1)

\* C2 as stated: exchanging the two arguments changes none of the four scores, and
\* the ratio of the normalized line sequences does not depend on their order.
C2_Symmetric ==
  /\ Reported =>
       /\ RatEq(result.details.moss_similarity, Exchanged.details.moss_similarity)
       /\ RatEq(result.details.structure_similarity, Exchanged.details.structure_similarity)
       /\ RatEq(result.details.line_similarity, Exchanged.details.line_similarity)
       /\ RatEq(result.summary.overall_similarity, Exchanged.summary.overall_similarity)
  /\ op = "calculate_line_similarity" =>
       RatEq(result, calculate_line_similarity(Self, code2, code1))

\* C2: exchanging the two arguments never changes the fingerprint similarity or the
\* structural similarity; with ignoreWhitespace on, where each normalized rendering
\* is one line, it changes neither the line similarity nor the overall similarity.
C2_SymmetricScores ==
  /\ Reported =>
       /\ RatEq(result.details.moss_similarity, Exchanged.details.moss_similarity)
       /\ RatEq(result.details.structure_similarity, Exchanged.details.structure_similarity)
       /\ ignore_whitespace =>
            /\ RatEq(result.details.line_similarity, Exchanged.details.line_similarity)
            /\ RatEq(result.summary.overall_similarity, Exchanged.summary.overall_similarity)
            /\ result.summary.similarity_level = Exchanged.summary.similarity_level
  /\ (op = "calculate_line_similarity" /\ ignore_whitespace) =>
       RatEq(result, calculate_line_similarity(Self, code2, code1))

\* two different texts whose structural similarity lies strictly between 0 and 1
C2_Witness ==
  /\ Reported
  /\ code1 # code2
  /\ code1 # <<>>
  /\ code2 # <<>>
  /\ ignore_whitespace
  /\ RatLess(Rat(0, 1), result.details.structure_similarity)
  /\ RatLess(result.details.structure_similarity, Rat(1, 1))

\* the normalized renderings have no token in common and no line in common
Disjoint(self, A, B) ==
  /\ ToSet(SplitWs(preprocess_cpp(self, A)))
       \cap ToSet(SplitWs(preprocess_cpp(self, B))) = {}
  /\ ToSet(NormalizedLines(self, A)) \cap ToSet(NormalizedLines(self, B)) = {}

\* the text has no function, no class and no control keyword
NoStructure(code) ==
  LET structure == extract_structure(code)
  IN /\ DOMAIN structure.functions = {}
     /\ DOMAIN structure.classes = {}
     /\ \A n \in DOMAIN structure.control_structures : structure.control_structures[n] = 0

\* C5 as stated: disjoint inputs get an overall similarity below 0.2 and the level
\* "Very Low", also when neither has a function, a class or a control keyword.
C5_DisjointVeryLow ==
  (Reported /\ Disjoint(Self, code1, code2))
    => /\ RatLess(result.summary.overall_similarity, Rat(2, 10))
       /\ result.summary.similarity_level = "Very Low"

\* C5: disjoint inputs get fingerprint similarity 0 and line similarity 0, so the
\* overall similarity is 0.3 times the structural similarity, at most 0.3, and the
\* level is "Very Low" or "Low"; when neither input has a function, a class or a
\* control keyword the structural similarity is 1.0, the overall similarity 0.3 and
\* the level "Low".
C5_DisjointScores ==
  (Reported /\ Disjoint(Self, code1, code2))
    => /\ RatEq(result.details.moss_similarity, Rat(0, 1))
       /\ RatEq(result.details.line_similarity, Rat(0, 1))
       /\ RatEq(result.summary.overall_similarity,
                RatMul(Rat(3, 10), result.details.structure_similarity))
       /\ RatGeq(Rat(3, 10), result.summary.overall_similarity)
       /\ result.summary.similarity_level \in {"Very Low", "Low"}
       /\ (NoStructure(code1) /\ NoStructure(code2))
            => /\ RatEq(result.details.structure_similarity, Rat(1, 1))
               /\ RatEq(result.summary.overall_similarity, Rat(3, 10))
               /\ result.summary.similarity_level = "Low"

\* two disjoint texts of at least k tokens each, neither with any structure
C5_Witness ==
  /\ Reported
  /\ Disjoint(Self, code1, code2)
  /\ TokenCount(Self, code1) >= KGramSize
  /\ TokenCount(Self, code2) >= KGramSize
  /\ NoStructure(code1)
  /\ NoStructure(code2)
  /\ result.summary.similarity_level = "Low"

ReportFields == {"summary", "details", "suspicious_segments"}

\* C8: a call of check_similarity in which a stage raised returns a result with the
\* field error and no report field; a call in which no stage raised returns a result
\* with the three report fields and no field error; no call returns anything else.
C8_ErrorOrReport ==
  op = "check_similarity"
    => /\ fault \in Stages => DOMAIN result = {"error"}
       /\ fault = "none" => DOMAIN result = ReportFields
       /\ DOMAIN result \in {{"error"}, ReportFields}

\* a call in which the last stage, the segment extraction, raised
C8_Witness ==
  /\ op = "check_similarity"
  /\ code1 # code2
  /\ fault = "segments"
  /\ DOMAIN result = {"error"}

(***************************************************************************)
(* Claims about the segment list, checked under SpecSegments               *)
(***************************************************************************)
\* B is A with one block of size lines moved behind the lines that followed it
MovedBlock(A, B, size) ==
  LET la == SplitOn(A, "\n")
      lb == SplitOn(B, "\n")
  IN \E i \in 0..Len(la), gap \in 1..Len(la) :
       /\ i + size + gap <= Len(la)
       /\ lb = SubSeq(la, 1, i) \o SubSeq(la, i + size + 1, i + size + gap)
                 \o SubSeq(la, i + 1, i + size) \o SubSeq(la, i + size + gap + 1, Len(la))

\* A and B have a run of size source lines in common
SharedRun(A, B, size) ==
  LET la == SplitOn(A, "\n")
      lb == SplitOn(B, "\n")
  IN \E i \in 1..(Len(la) - size + 1), j \in 1..(Len(lb) - size + 1) :
       SubSeq(la, i, i + size - 1) = SubSeq(lb, j, j + size - 1)

\* C6 as stated: under the default configuration, two texts that differ by one moved
\* block of 4 lines get a segment of length >= 4 with local similarity 1.0, and two
\* texts that share a run of minSegmentLength source lines get a non-empty list.
C6_MovedBlockReported ==
  (Reported /\ ignore_comments /\ ignore_whitespace /\ normalize_identifiers)
    => /\ (MovedBlock(code1, code2, 4) \/ MovedBlock(code2, code1, 4))
            => \E n \in 1..Len(result.suspicious_segments) :
                 /\ result.suspicious_segments[n].length >= 4
                 /\ RatEq(result.suspicious_segments[n].similarity, Rat(1, 1))
       /\ SharedRun(code1, code2, MinLength) => result.suspicious_segments # <<>>

\* the segments of the blocks of the alignment that are long enough to be kept
KeptBlocks(self, c1, c2) ==
  LET blocks == get_matching_blocks(NormalizedLines(self, c1), NormalizedLines(self, c2))
  IN {SegmentOf(c1, c2, blocks[n]) : n \in {m \in 1..Len(blocks) : blocks[m].size >= MinLength}}

\* C9: the segment list of a report has at most topSegments entries, in the order of
\* non-increasing local similarity, each of length >= minSegmentLength; its entries
\* are kept blocks, as many as there are up to topSegments, none with a smaller
\* similarity than a kept block that is left out; no entry has length 0.
C9_TopSegments ==
  Reported =>
    LET list == result.suspicious_segments
        kept == KeptBlocks(Self, code1, code2)
    IN /\ Len(list) <= TopSegments
       /\ Len(list) = Min(TopSegments, Cardinality(kept))
       /\ \A n \in 1..(Len(list) - 1) : RatGeq(list[n].similarity, list[n + 1].similarity)
       /\ \A n \in 1..Len(list) : list[n].length >= MinLength /\ list[n].length # 0
       /\ \A n \in 1..Len(list) : list[n] \in kept
       /\ \A n \in 1..Len(list), m \in 1..Len(list) : n # m => list[n] # list[m]
       /\ \A seg \in kept :
            (\A n \in 1..Len(list) : list[n] # seg)
              => \A n \in 1..Len(list) : RatGeq(list[n].similarity, seg.similarity)

\* more kept blocks than topSegments, of different local similarities
C9_Witness ==
  /\ Reported
  /\ Cardinality(KeptBlocks(Self, code1, code2)) > TopSegments
  /\ Len(result.suspicious_segments) = TopSegments
  /\ RatLess(result.suspicious_segments[TopSegments].similarity,
             result.suspicious_segments[1].similarity)

(***************************************************************************)
(* Inputs of the winnowing: texts long enough to fill several windows      *)
(***************************************************************************)
\* a text of the given tokens, one space between two tokens
Spaced(tokens) == Join(tokens, <<" ">>)

\* two runs of 26 tokens; the second is numbers and operators only, so that
\* its k-grams repeat once the numbers are masked
WinnowRuns ==
  {<<<<"a">>, <<"+">>, <<"1">>, <<"-">>, <<"a">>, <<"*">>, <<"1">>, <<";">>,
     <<"i", "f">>, <<"(">>, <<"a">>, <<")">>, <<"{">>, <<"1">>, <<"}">>, <<";">>,
     <<"c">>, <<"=">>, <<"a">>, <<"/">>, <<"1">>, <<";">>, <<"c">>, <<"=">>, <<"c">>, <<";">>>>,
   <<<<"1">>, <<"+">>, <<"1">>, <<"+">>, <<"1">>, <<"+">>, <<"1">>, <<"+">>,
     <<"1">>, <<"+">>, <<"1">>, <<"-">>, <<"1">>, <<"+">>, <<"1">>, <<";">>,
     <<"1">>, <<"*">>, <<"1">>, <<"+">>, <<"1">>, <<"+">>, <<"1">>, <<"+">>, <<"1">>, <<";">>>>}

\* the run, and the run with its 8th token replaced
RunVariants(run) == {run, [run EXCEPT ![8] = <<"<">>]}

MaxAffix == 1

\* the tokens put before a run
Affixes == SeqsUpTo({<<"b">>, <<"-">>}, MaxAffix)

\* the texts around a run: some tokens before it, and b or nothing behind it
WinnowTexts(run) ==
  {Spaced(before \o run \o behind) : before \in Affixes, behind \in {<<>>, <<<<"b">>>>}}

\* the first tokens of a run: a text with fewer than w k-grams
ShortTexts == {Spaced(SubSeq(run, 1, n)) : run \in WinnowRuns, n \in {4, 9, 13}}

WinnowPairs ==
  UNION {UNION {WinnowTexts(run) \X WinnowTexts(other) : other \in RunVariants(run)} :
           run \in WinnowRuns}
    \cup (ShortTexts \X ShortTexts)

NextWinnow == SetOptions \/ CalculateMossSimilarity(WinnowPairs)

SpecWinnow == Init /\ [][NextWinnow]_vars

(***************************************************************************)
(* Claims about the winnowing, checked under SpecWinnow                    *)
(***************************************************************************)
\* the k-gram hashes of the normalized rendering of a text
HashesOf(self, code) == get_kgram_hashes(preprocess_cpp(self, code), KGramSize)

\* the FingerprintSet of a text
FingerprintSet(self, code) == ToSet(winnow(HashesOf(self, code), WindowSize))

\* the two token streams have n consecutive tokens in common
SharedTokenRun(s1, s2, n) ==
  \E i \in 1..(Len(s1) - n + 1), j \in 1..(Len(s2) - n + 1) :
    SubSeq(s1, i, i + n - 1) = SubSeq(s2, j, j + n - 1)

FirstLines(code, n) == Join(SubSeq(SplitOn(code, "\n"), 1, n), <<"\n">>)

\* the first n lines of the normalized rendering are the rendering of the first n
\* lines of the text: normalizing the text up to its n-th line break gives these
\* lines, and one empty line behind the break
LinesAligned(self, code, n) ==
  LET last == n >= Len(SplitOn(code, "\n"))
      upto == IF last THEN code ELSE FirstLines(code, n) \o <<"\n">>
  IN /\ n <= Len(NormalizedLines(self, code))
     /\ Len(NormalizedLines(self, upto)) = (IF last THEN n ELSE n + 1)
     /\ SubSeq(NormalizedLines(self, upto), 1, n) = SubSeq(NormalizedLines(self, code), 1, n)

\* the text, of length lines, is the lines start .. start + length - 1 of the code, and
\* the normalized lines at these positions are the rendering of these lines
SegmentFromLines(self, code, start, length, text) ==
  LET original_lines == SplitOn(code, "\n")
  IN /\ start >= 1
     /\ start + length - 1 <= Len(original_lines)
     /\ Len(SplitOn(text, "\n")) = length
     /\ text = Join(SubSeq(original_lines, start, start + length - 1), <<"\n">>)
     /\ start > 1 => LinesAligned(self, code, start - 1)
     /\ LinesAligned(self, code, start + length - 1)

\* C12 as stated: every reported segment starts, on either side, at a 1-indexed line
\* of the original input, its literal text is exactly `length` original lines from
\* there, and these are the lines the matched normalized lines were produced from;
\* the matched normalized lines are equal on the two sides.
C12_SegmentsFromOriginalLines ==
  Reported =>
    \A n \in 1..Len(result.suspicious_segments) :
      LET seg == result.suspicious_segments[n]
      IN /\ SegmentFromLines(Self, code1, seg.file1_start_line, seg.length, seg.file1_segment)
         /\ SegmentFromLines(Self, code2, seg.file2_start_line, seg.length, seg.file2_segment)
         /\ SubSeq(NormalizedLines(Self, code1), seg.file1_start_line,
                   seg.file1_start_line + seg.length - 1)
              = SubSeq(NormalizedLines(Self, code2), seg.file2_start_line,
                       seg.file2_start_line + seg.length - 1)

====
